---- MODULE Spec2Model ----
(***************************************************************************)
(* Neotron Common BIOS: the packed video mode descriptor (src/video.rs)    *)
(* and the packed version descriptor (src/version.rs).                     *)
(*                                                                         *)
(* The library is a set of pure `const fn`s over newtypes of u8 and u32.   *)
(* The state of the model is the last call a client of the library made:   *)
(* its name, its arguments and the value it returned.                      *)
(***************************************************************************)
EXTENDS Integers, Sequences, FiniteSets

VARIABLES call

vars == <<call>>

(***************************************************************************)
(* Machine integers.                                                       *)
(***************************************************************************)

\* A u8 value.
U8 == 0..255

\* `x as u8`: truncation to the low eight bits.
cast_u8(x) == x % 256

\* `x << n` on a u8 (n < 8): the bits shifted out of the byte are lost.
shl_u8(x, n) == (x * (2 ^ n)) % 256

\* `x >> n` on an unsigned integer.
shr(x, n) == x \div (2 ^ n)

RECURSIVE bitor(_, _)
\* `a | b` on unsigned integers.
bitor(a, b) ==
  IF a = 0 THEN b
  ELSE IF b = 0 THEN a
  ELSE (IF a % 2 = 1 \/ b % 2 = 1 THEN 1 ELSE 0) + 2 * bitor(a \div 2, b \div 2)

RECURSIVE bitand(_, _)
\* `a & b` on unsigned integers.
bitand(a, b) ==
  IF a = 0 \/ b = 0 THEN 0
  ELSE (IF a % 2 = 1 /\ b % 2 = 1 THEN 1 ELSE 0) + 2 * bitand(a \div 2, b \div 2)

(***************************************************************************)
(* The enumerations of src/video.rs.                                       *)
(***************************************************************************)

\* enum Format, in declaration order (make_ffi_enum numbers them from 0).
Format == <<"Text8x16", "Text8x8", "Chunky32", "Chunky16",
            "Chunky8", "Chunky4", "Chunky2", "Chunky1">>

Formats == {Format[i] : i \in 1..Len(Format)}

\* `format as u8`
Format_as_u8(f) == CHOOSE i \in 0..(Len(Format) - 1) : Format[i + 1] = f

\* enum Timing
Timings == {"T640x480", "T640x400", "T800x600"}

\* `timing as u8`: the explicit discriminants of enum Timing.
Timing_as_u8(t) ==
  CASE t = "T640x480" -> 0
    [] t = "T640x400" -> 1
    [] t = "T800x600" -> 2

\* enum Scaling
Scalings == {"None", "DoubleWidth", "DoubleHeight", "DoubleWidthAndHeight"}

\* unreachable!(): the arm of a match that panics.
Unreachable == "unreachable!()"

\* crate Option<T>
None == [tag |-> "None"]

Some(v) == [tag |-> "Some", v |-> v]

(***************************************************************************)
(* impl Mode.  A Mode is its u8.                                           *)
(***************************************************************************)

VERT_2X_SHIFT == 7

TIMING_SHIFT == 4

HORIZ_2X_SHIFT == 3

FORMAT_SHIFT == 0

new_with_scaling_swapped_flags(t, f, s) ==
  LET mode == bitor(shl_u8(Timing_as_u8(t), TIMING_SHIFT),
                    shl_u8(Format_as_u8(f), FORMAT_SHIFT))
  IN  CASE s = "None" -> mode
        [] s = "DoubleWidth" -> bitor(mode, shl_u8(1, VERT_2X_SHIFT))
        [] s = "DoubleHeight" -> bitor(mode, shl_u8(1, HORIZ_2X_SHIFT))
        [] s = "DoubleWidthAndHeight" ->
             bitor(bitor(mode, shl_u8(1, HORIZ_2X_SHIFT)), shl_u8(1, VERT_2X_SHIFT))

new_with_scaling_timing_shift_3(t, f, s) ==
  LET mode == bitor(shl_u8(Timing_as_u8(t), HORIZ_2X_SHIFT),
                    shl_u8(Format_as_u8(f), FORMAT_SHIFT))
  IN  CASE s = "None" -> mode
        [] s = "DoubleWidth" -> bitor(mode, shl_u8(1, HORIZ_2X_SHIFT))
        [] s = "DoubleHeight" -> bitor(mode, shl_u8(1, VERT_2X_SHIFT))
        [] s = "DoubleWidthAndHeight" ->
             bitor(bitor(mode, shl_u8(1, HORIZ_2X_SHIFT)), shl_u8(1, VERT_2X_SHIFT))

new_with_scaling(t, f, s) ==
  LET mode == bitor(shl_u8(Timing_as_u8(t), TIMING_SHIFT),
                    shl_u8(Format_as_u8(f), FORMAT_SHIFT))
  IN  CASE s = "None" -> mode
        [] s = "DoubleWidth" -> bitor(mode, shl_u8(1, HORIZ_2X_SHIFT))
        [] s = "DoubleHeight" -> bitor(mode, shl_u8(1, VERT_2X_SHIFT))
        [] s = "DoubleWidthAndHeight" ->
             bitor(bitor(mode, shl_u8(1, HORIZ_2X_SHIFT)), shl_u8(1, VERT_2X_SHIFT))

Mode_new(t, f) == new_with_scaling(t, f, "None")

new_double_height(t, f) == new_with_scaling(t, f, "DoubleHeight")

new_double_width(t, f) == new_with_scaling(t, f, "DoubleWidth")

new_double_height_width(t, f) == new_with_scaling(t, f, "DoubleWidthAndHeight")

is_vert_2x(m) == bitand(m, shl_u8(1, VERT_2X_SHIFT)) # 0

is_horiz_2x_format_bit(m) == bitand(m, shl_u8(1, FORMAT_SHIFT)) # 0

is_horiz_2x(m) == bitand(m, shl_u8(1, HORIZ_2X_SHIFT)) # 0

format(m) ==
  LET bits == bitand(shr(m, FORMAT_SHIFT), 7)
  IN  CASE bits = 0 -> "Text8x16"
        [] bits = 1 -> "Text8x8"
        [] bits = 2 -> "Chunky32"
        [] bits = 3 -> "Chunky16"
        [] bits = 4 -> "Chunky8"
        [] bits = 5 -> "Chunky4"
        [] bits = 6 -> "Chunky2"
        [] bits = 7 -> "Chunky1"
        [] OTHER -> Unreachable

timing_two_arms(m) ==
  LET bits == bitand(shr(m, TIMING_SHIFT), 7)
  IN  CASE bits = 0 -> "T640x480"
        [] bits = 1 -> "T640x400"
        [] OTHER -> Unreachable

timing(m) ==
  LET bits == bitand(shr(m, TIMING_SHIFT), 7)
  IN  CASE bits = 0 -> "T640x480"
        [] bits = 1 -> "T640x400"
        [] bits = 2 -> "T800x600"
        [] OTHER -> Unreachable

horizontal_pixels_halved_twice(m) ==
  LET t == timing(m)
      h == is_horiz_2x(m)
  IN  CASE t = "T640x480" /\ ~h -> 640
        [] t = "T640x400" /\ ~h -> 640
        [] t = "T800x600" /\ ~h -> 800
        [] t = "T640x480" /\ h -> 160
        [] t = "T640x400" /\ h -> 160
        [] t = "T800x600" /\ h -> 200

\* The match of horizontal_pixels is exhaustive over enum Timing: on a byte
\* whose timing() panics there is no value to return.
horizontal_pixels(m) ==
  LET t == timing(m)
      h == is_horiz_2x(m)
  IN  CASE t = "T640x480" /\ ~h -> 640
        [] t = "T640x400" /\ ~h -> 640
        [] t = "T800x600" /\ ~h -> 800
        [] t = "T640x480" /\ h -> 320
        [] t = "T640x400" /\ h -> 320
        [] t = "T800x600" /\ h -> 400

vertical_lines(m) ==
  LET t == timing(m)
      v == is_vert_2x(m)
  IN  CASE t = "T640x480" /\ ~v -> 480
        [] t = "T640x400" /\ ~v -> 400
        [] t = "T800x600" /\ ~v -> 600
        [] t = "T640x480" /\ v -> 240
        [] t = "T640x400" /\ v -> 200
        [] t = "T800x600" /\ v -> 300

line_size_bytes_text_one_byte(m) ==
  LET pixels == horizontal_pixels(m)
      f == format(m)
  IN  CASE f \in {"Text8x8", "Text8x16"} -> pixels \div 8
        [] f = "Chunky32" -> pixels * 4
        [] f = "Chunky16" -> pixels * 2
        [] f = "Chunky8" -> pixels
        [] f = "Chunky4" -> pixels \div 2
        [] f = "Chunky2" -> pixels \div 4
        [] f = "Chunky1" -> pixels \div 8

line_size_bytes_chunky2_as_chunky4(m) ==
  LET pixels == horizontal_pixels(m)
      f == format(m)
  IN  CASE f \in {"Text8x8", "Text8x16"} -> (pixels \div 8) * 2
        [] f = "Chunky32" -> pixels * 4
        [] f = "Chunky16" -> pixels * 2
        [] f = "Chunky8" -> pixels
        [] f = "Chunky4" -> pixels \div 2
        [] f = "Chunky2" -> pixels \div 2
        [] f = "Chunky1" -> pixels \div 8

line_size_bytes(m) ==
  LET pixels == horizontal_pixels(m)
      f == format(m)
  IN  CASE f \in {"Text8x8", "Text8x16"} -> (pixels \div 8) * 2
        [] f = "Chunky32" -> pixels * 4
        [] f = "Chunky16" -> pixels * 2
        [] f = "Chunky8" -> pixels
        [] f = "Chunky4" -> pixels \div 2
        [] f = "Chunky2" -> pixels \div 4
        [] f = "Chunky1" -> pixels \div 8

text_width(m) ==
  IF format(m) \in {"Text8x8", "Text8x16"}
  THEN Some(horizontal_pixels(m) \div 8)
  ELSE None

text_height_cells_swapped(m) ==
  CASE format(m) = "Text8x8" -> Some(vertical_lines(m) \div 16)
    [] format(m) = "Text8x16" -> Some(vertical_lines(m) \div 8)
    [] OTHER -> None

text_height(m) ==
  CASE format(m) = "Text8x8" -> Some(vertical_lines(m) \div 8)
    [] format(m) = "Text8x16" -> Some(vertical_lines(m) \div 16)
    [] OTHER -> None

is_text_mode(m) == format(m) \in {"Text8x8", "Text8x16"}

frame_size_bytes_cells_swapped(m) ==
  LET line_size == line_size_bytes(m)
      num_lines == vertical_lines(m) \div
                     (CASE format(m) = "Text8x8" -> 16
                        [] format(m) = "Text8x16" -> 8
                        [] OTHER -> 1)
  IN  line_size * num_lines

frame_size_bytes_round_up(m) ==
  LET line_size == line_size_bytes(m)
      cell == CASE format(m) = "Text8x8" -> 8
                [] format(m) = "Text8x16" -> 16
                [] OTHER -> 1
      num_lines == (vertical_lines(m) + cell - 1) \div cell
  IN  line_size * num_lines

frame_size_bytes(m) ==
  LET line_size == line_size_bytes(m)
      num_lines == vertical_lines(m) \div
                     (CASE format(m) = "Text8x8" -> 8
                        [] format(m) = "Text8x16" -> 16
                        [] OTHER -> 1)
  IN  line_size * num_lines

pixel_clock_hz(m) ==
  CASE timing(m) = "T640x480" -> 25175000
    [] timing(m) = "T640x400" -> 25175000
    [] timing(m) = "T800x600" -> 40000000

frame_rate_hz(m) ==
  CASE timing(m) = "T640x480" -> 60
    [] timing(m) = "T640x400" -> 70
    [] timing(m) = "T800x600" -> 60

as_u8(m) == m

try_from_u8_accepts_timing_3(mode_value) ==
  IF bitand(shr(mode_value, TIMING_SHIFT), 7) \in 0..3
  THEN Some(mode_value)
  ELSE None

try_from_u8_all_valid(mode_value) == Some(mode_value)

try_from_u8(mode_value) ==
  IF bitand(shr(mode_value, TIMING_SHIFT), 7) \in 0..2
  THEN Some(mode_value)
  ELSE None

\* unsafe fn from_u8: no validation.
from_u8(mode_value) == mode_value

(***************************************************************************)
(* mod test: the fixture of test::mode_sizes, one row per assert_eq!:      *)
(* <<constructor, timing, format, expected frame_size_bytes()>>.           *)
(***************************************************************************)

mode_sizes ==
  << <<"new", "T640x480", "Text8x16", 4800>>,
     <<"new", "T640x480", "Text8x8", 9600>>,
     <<"new", "T640x480", "Chunky32", 1228800>>,
     <<"new", "T640x480", "Chunky16", 614400>>,
     <<"new", "T640x480", "Chunky8", 307200>>,
     <<"new", "T640x480", "Chunky4", 153600>>,
     <<"new", "T640x480", "Chunky2", 76800>>,
     <<"new", "T640x480", "Chunky1", 38400>>,
     <<"new", "T640x400", "Text8x16", 4000>>,
     <<"new", "T640x400", "Text8x8", 8000>>,
     <<"new", "T640x400", "Chunky32", 1024000>>,
     <<"new", "T640x400", "Chunky16", 512000>>,
     <<"new", "T640x400", "Chunky8", 256000>>,
     <<"new", "T640x400", "Chunky4", 128000>>,
     <<"new", "T640x400", "Chunky2", 64000>>,
     <<"new", "T640x400", "Chunky1", 32000>>,
     <<"new", "T800x600", "Text8x16", 7400>>,
     <<"new", "T800x600", "Text8x8", 15000>>,
     <<"new", "T800x600", "Chunky32", 1920000>>,
     <<"new", "T800x600", "Chunky16", 960000>>,
     <<"new", "T800x600", "Chunky8", 480000>>,
     <<"new", "T800x600", "Chunky4", 240000>>,
     <<"new", "T800x600", "Chunky2", 120000>>,
     <<"new", "T800x600", "Chunky1", 60000>>,
     <<"new_double_width", "T640x480", "Text8x16", 2400>>,
     <<"new_double_width", "T640x480", "Text8x8", 4800>>,
     <<"new_double_width", "T640x480", "Chunky32", 614400>>,
     <<"new_double_width", "T640x480", "Chunky16", 307200>>,
     <<"new_double_width", "T640x480", "Chunky8", 153600>>,
     <<"new_double_width", "T640x480", "Chunky4", 76800>>,
     <<"new_double_width", "T640x480", "Chunky2", 38400>>,
     <<"new_double_width", "T640x480", "Chunky1", 19200>>,
     <<"new_double_width", "T640x400", "Text8x16", 2000>>,
     <<"new_double_width", "T640x400", "Text8x8", 4000>>,
     <<"new_double_width", "T640x400", "Chunky32", 512000>>,
     <<"new_double_width", "T640x400", "Chunky16", 256000>>,
     <<"new_double_width", "T640x400", "Chunky8", 128000>>,
     <<"new_double_width", "T640x400", "Chunky4", 64000>>,
     <<"new_double_width", "T640x400", "Chunky2", 32000>>,
     <<"new_double_width", "T640x400", "Chunky1", 16000>>,
     <<"new_double_width", "T800x600", "Text8x16", 3700>>,
     <<"new_double_width", "T800x600", "Text8x8", 7500>>,
     <<"new_double_width", "T800x600", "Chunky32", 960000>>,
     <<"new_double_width", "T800x600", "Chunky16", 480000>>,
     <<"new_double_width", "T800x600", "Chunky8", 240000>>,
     <<"new_double_width", "T800x600", "Chunky4", 120000>>,
     <<"new_double_width", "T800x600", "Chunky2", 60000>>,
     <<"new_double_width", "T800x600", "Chunky1", 30000>>,
     <<"new_double_height", "T640x480", "Text8x16", 2400>>,
     <<"new_double_height", "T640x480", "Text8x8", 4800>>,
     <<"new_double_height", "T640x480", "Chunky32", 614400>>,
     <<"new_double_height", "T640x480", "Chunky16", 307200>>,
     <<"new_double_height", "T640x480", "Chunky8", 153600>>,
     <<"new_double_height", "T640x480", "Chunky4", 76800>>,
     <<"new_double_height", "T640x480", "Chunky2", 38400>>,
     <<"new_double_height", "T640x480", "Chunky1", 19200>>,
     <<"new_double_height", "T640x400", "Text8x16", 1920>>,
     <<"new_double_height", "T640x400", "Text8x8", 4000>>,
     <<"new_double_height", "T640x400", "Chunky32", 512000>>,
     <<"new_double_height", "T640x400", "Chunky16", 256000>>,
     <<"new_double_height", "T640x400", "Chunky8", 128000>>,
     <<"new_double_height", "T640x400", "Chunky4", 64000>>,
     <<"new_double_height", "T640x400", "Chunky2", 32000>>,
     <<"new_double_height", "T640x400", "Chunky1", 16000>>,
     <<"new_double_height", "T800x600", "Text8x16", 3600>>,
     <<"new_double_height", "T800x600", "Text8x8", 7400>>,
     <<"new_double_height", "T800x600", "Chunky32", 960000>>,
     <<"new_double_height", "T800x600", "Chunky16", 480000>>,
     <<"new_double_height", "T800x600", "Chunky8", 240000>>,
     <<"new_double_height", "T800x600", "Chunky4", 120000>>,
     <<"new_double_height", "T800x600", "Chunky2", 60000>>,
     <<"new_double_height", "T800x600", "Chunky1", 30000>>,
     <<"new_double_height_width", "T640x480", "Text8x16", 1200>>,
     <<"new_double_height_width", "T640x480", "Text8x8", 2400>>,
     <<"new_double_height_width", "T640x480", "Chunky32", 307200>>,
     <<"new_double_height_width", "T640x480", "Chunky16", 153600>>,
     <<"new_double_height_width", "T640x480", "Chunky8", 76800>>,
     <<"new_double_height_width", "T640x480", "Chunky4", 38400>>,
     <<"new_double_height_width", "T640x480", "Chunky2", 19200>>,
     <<"new_double_height_width", "T640x480", "Chunky1", 9600>>,
     <<"new_double_height_width", "T640x400", "Text8x16", 960>>,
     <<"new_double_height_width", "T640x400", "Text8x8", 2000>>,
     <<"new_double_height_width", "T640x400", "Chunky32", 256000>>,
     <<"new_double_height_width", "T640x400", "Chunky16", 128000>>,
     <<"new_double_height_width", "T640x400", "Chunky8", 64000>>,
     <<"new_double_height_width", "T640x400", "Chunky4", 32000>>,
     <<"new_double_height_width", "T640x400", "Chunky2", 16000>>,
     <<"new_double_height_width", "T640x400", "Chunky1", 8000>>,
     <<"new_double_height_width", "T800x600", "Text8x16", 1800>>,
     <<"new_double_height_width", "T800x600", "Text8x8", 3700>>,
     <<"new_double_height_width", "T800x600", "Chunky32", 480000>>,
     <<"new_double_height_width", "T800x600", "Chunky16", 240000>>,
     <<"new_double_height_width", "T800x600", "Chunky8", 120000>>,
     <<"new_double_height_width", "T800x600", "Chunky4", 60000>>,
     <<"new_double_height_width", "T800x600", "Chunky2", 30000>>,
     <<"new_double_height_width", "T800x600", "Chunky1", 15000>> >>

(***************************************************************************)
(* impl Version (src/version.rs).  A Version is its u32.                   *)
(***************************************************************************)

\* u32::from_be_bytes: the first byte is the most significant.
from_be_bytes(bytes) ==
  ((bytes[1] * 256 + bytes[2]) * 256 + bytes[3]) * 256 + bytes[4]

Version_new_minor_first(major_, minor_, patch_) ==
  from_be_bytes(<<0, minor_, major_, patch_>>)

Version_new(major_, minor_, patch_) == from_be_bytes(<<0, major_, minor_, patch_>>)

\* pub const API_VERSION
API_VERSION == Version_new(0, 6, 1)

major_top_byte(v) == cast_u8(shr(v, 24))

major(v) == cast_u8(shr(v, 16))

minor_without_cast(v) == shr(v, 8)

minor(v) == cast_u8(shr(v, 8))

patch(v) == cast_u8(v)


\* #[derive(PartialEq, Eq)] on Version(u32): equality of the u32.
Version_eq(v, w) == v = w

\* #[derive(PartialOrd, Ord)] on Version(u32): the order of the u32.
Version_cmp(v, w) ==
  IF v < w THEN "Less" ELSE IF v = w THEN "Equal" ELSE "Greater"

(***************************************************************************)
(* The enumerations generated by make_ffi_enum! and their integer codec.   *)
(***************************************************************************)

\* enum TextForegroundColour, in declaration order.
TextForegroundColour ==
  <<"Black", "Blue", "Green", "Cyan", "Red", "Magenta", "Brown", "LightGray",
    "DarkGray", "LightBlue", "LightGreen", "LightCyan", "LightRed", "Pink",
    "Yellow", "White">>

\* enum TextBackgroundColour, in declaration order.
TextBackgroundColour ==
  <<"Black", "Blue", "Green", "Cyan", "Red", "Magenta", "Brown", "LightGray">>

\* enum PeripheralKind, in declaration order.
PeripheralKind == <<"Slot", "SdCard", "Reserved">>

\* The enumerations make_ffi_enum! is applied to.
FfiEnums == {"Format", "TextForegroundColour", "TextBackgroundColour", "PeripheralKind"}

\* The variants of an enumeration, in declaration order.
Variants(e) ==
  CASE e = "Format" -> Format
    [] e = "TextForegroundColour" -> TextForegroundColour
    [] e = "TextBackgroundColour" -> TextBackgroundColour
    [] e = "PeripheralKind" -> PeripheralKind

VariantSet(e) == {Variants(e)[i] : i \in 1..Len(Variants(e))}

enum_as_u8_one_based(e, v) ==
  CHOOSE i \in 1..Len(Variants(e)) : Variants(e)[i] = v

\* `variant as u8`: a fieldless enum without explicit discriminants numbers
\* its variants from 0 in declaration order.
enum_as_u8(e, v) ==
  CHOOSE i \in 0..(Len(Variants(e)) - 1) : Variants(e)[i + 1] = v

\* core / crate Result<T, E>
Ok(v) == [tag |-> "Ok", v |-> v]

Err(e) == [tag |-> "Err", e |-> e]

\* The condition a failed conversion reports.
ConversionFailed == "ConversionFailed"

\* Ffi<Enum>(n).make_safe(): the variant whose integer is n, or the failure.
make_safe(e, n) ==
  IF \E v \in VariantSet(e) : enum_as_u8(e, v) = n
  THEN Ok(CHOOSE v \in VariantSet(e) : enum_as_u8(e, v) = n)
  ELSE Err(ConversionFailed)

(***************************************************************************)
(* impl Result<T>, impl Option<T> (src/types.rs).  A call either returns a *)
(* value or panics with a message.                                         *)
(***************************************************************************)

Return(v) == [panic |-> FALSE, val |-> v]

Panic(msg) == [panic |-> TRUE, msg |-> msg]

Digits == <<"0", "1", "2", "3", "4", "5", "6", "7", "8", "9">>

RECURSIVE u16_decimal(_)
\* {:?} of a u16: its decimal digits, the most significant first.
u16_decimal(n) ==
  IF n < 10 THEN <<Digits[n + 1]>>
  ELSE u16_decimal(n \div 10) \o <<Digits[(n % 10) + 1]>>

\* #[derive(Debug)] on enum Error: the variant's name, and its field in
\* parentheses.
Error_debug(e) ==
  IF e.kind \in {"DeviceError", "UnsupportedConfiguration"}
  THEN <<e.kind, "(">> \o u16_decimal(e.code) \o <<")">>
  ELSE <<e.kind>>

Result_unwrap_or_zero(r) ==
  IF r.tag = "Ok" THEN Return(r.v) ELSE Return(0)

Result_unwrap(r) ==
  IF r.tag = "Ok"
  THEN Return(r.v)
  ELSE Panic(<<"Unwrap called, got err ">> \o Error_debug(r.e))

Option_unwrap(o) ==
  IF o.tag = "Some"
  THEN Return(o.v)
  ELSE Panic(<<"Unwrap called on empty option">>)

(***************************************************************************)
(* The borrowed views of src/types.rs.  Memory is a function from          *)
(* addresses to bytes; a Rust slice reference is a pointer and a length;   *)
(* a view is the pair of its public fields data and data_len.              *)
(***************************************************************************)

\* The null pointer.
NULL == 0

\* &[u8] / &mut [u8]: a pointer into memory and a length.
Slice(ptr, len) == [ptr |-> ptr, len |-> len]

\* <[u8]>::as_ptr / as_mut_ptr
as_ptr(s) == s.ptr

\* <[u8]>::len
len(s) == s.len

\* core::slice::from_raw_parts / from_raw_parts_mut: no check is made.
from_raw_parts(data, data_len) == Slice(data, data_len)

\* The addresses a slice reference gives access to.
SliceAddrs(s) == {s.ptr + i : i \in 0..(s.len - 1)}

\* The bytes a slice reference reads.
SliceBytes(mem, s) == [i \in 1..s.len |-> mem[s.ptr + i - 1]]

ApiByteSlice_new_short(s) == [data |-> as_ptr(s), data_len |-> IF len(s) > 0 THEN len(s) - 1 ELSE 0]

ApiByteSlice_new(s) == [data |-> as_ptr(s), data_len |-> len(s)]

ApiByteSlice_as_slice(view) == from_raw_parts(view.data, view.data_len)

ApiBuffer_new_long(s) == [data |-> as_ptr(s), data_len |-> len(s) + 1]

ApiBuffer_new(s) == [data |-> as_ptr(s), data_len |-> len(s)]

ApiBuffer_as_slice(view) == from_raw_parts(view.data, view.data_len)

ApiBuffer_as_mut_slice(view) == from_raw_parts(view.data, view.data_len)

\* #[derive(Clone)] on ApiByteSlice, ApiBuffer and ApiString: a field-wise copy.
view_clone(view) == [data |-> view.data, data_len |-> view.data_len]

\* str::as_bytes: a &str is the slice of its UTF-8 bytes.
str_as_bytes(s) == s

\* core::str::from_utf8_unchecked: the slice, taken as a &str unchecked.
from_utf8_unchecked(s) == s

ApiString_new_drop_last(s) == ApiByteSlice_new_short(str_as_bytes(s))

\* ApiString(ApiByteSlice): the string is its private inner view.
ApiString_new(s) == ApiByteSlice_new(str_as_bytes(s))

ApiString_from(input) == ApiString_new(input)

ApiString_as_str(view) == from_utf8_unchecked(ApiByteSlice_as_slice(view))

\* impl Display for ApiString: write!(f, "{}", s) writes the bytes of s.
ApiString_fmt(mem, view) ==
  SliceBytes(mem, from_utf8_unchecked(from_raw_parts(view.data, view.data_len)))

\* A boundary call that fills a buffer (configuration_get, serial_read,
\* audio_input_data): it stores min(available, buffer length) bytes from
\* the start of the buffer and returns the count stored.
buffer_fill(mem, view, source) ==
  LET target == ApiBuffer_as_mut_slice(view)
      n == IF Len(source) < len(target) THEN Len(source) ELSE len(target)
  IN  [mem |-> [a \in DOMAIN mem |->
                  IF a \in as_ptr(target)..(as_ptr(target) + n - 1)
                  THEN source[a - as_ptr(target) + 1]
                  ELSE mem[a]],
       ret |-> Ok(n)]

(***************************************************************************)
(* struct Time and its conversion to a UTC timestamp (src/types.rs).       *)
(***************************************************************************)

\* chrono: the days from 1970-01-01 to the civil date y-m-d (proleptic
\* Gregorian calendar), for y >= 1970.
days_from_civil(y, m, d) ==
  LET yy == IF m <= 2 THEN y - 1 ELSE y
      era == yy \div 400
      yoe == yy - era * 400
      mp == (m + 9) % 12
      doy == (153 * mp + 2) \div 5 + d - 1
      doe == yoe * 365 + yoe \div 4 - yoe \div 100 + doy
  IN  era * 146097 + doe - 719468

\* Utc.ymd(y, m, d).and_hms(h, mi, s).timestamp(): seconds since the Unix epoch.
ymd_and_hms_timestamp(y, m, d, h, mi, s) ==
  days_from_civil(y, m, d) * 86400 + h * 3600 + mi * 60 + s

our_epoch == ymd_and_hms_timestamp(2001, 1, 1, 0, 0, 0)

\* impl From<&Time> for chrono::DateTime<Utc>: Utc.timestamp(secs, nsecs).
Time_into_DateTime(time) ==
  [secs |-> time.secs + our_epoch, nsecs |-> time.nsecs]


(***************************************************************************)
(* impl TextForegroundColour, impl Attr (src/video.rs).                    *)
(***************************************************************************)

make_background(c) ==
  CASE c = "Black" -> "Black"
    [] c = "Blue" -> "Blue"
    [] c = "Green" -> "Green"
    [] c = "Cyan" -> "Cyan"
    [] c = "Red" -> "Red"
    [] c = "Magenta" -> "Magenta"
    [] c = "Brown" -> "Brown"
    [] c = "LightGray" -> "LightGray"
    [] c = "DarkGray" -> "Black"
    [] c = "LightBlue" -> "Blue"
    [] c = "LightGreen" -> "Green"
    [] c = "LightCyan" -> "Cyan"
    [] c = "LightRed" -> "Red"
    [] c = "Pink" -> "Magenta"
    [] c = "Yellow" -> "Brown"
    [] c = "White" -> "LightGray"

brighten(c) ==
  CASE c = "Black" -> "DarkGray"
    [] c = "Red" -> "LightRed"
    [] c = "Green" -> "LightGreen"
    [] c = "Brown" -> "Yellow"
    [] c = "Blue" -> "LightBlue"
    [] c = "Magenta" -> "Pink"
    [] c = "Cyan" -> "LightCyan"
    [] c = "LightGray" -> "White"
    [] c = "DarkGray" -> "LightGray"
    [] c = "LightBlue" -> "LightBlue"
    [] c = "LightGreen" -> "LightGreen"
    [] c = "LightCyan" -> "LightCyan"
    [] c = "LightRed" -> "LightRed"
    [] c = "Pink" -> "Pink"
    [] c = "Yellow" -> "Yellow"
    [] c = "White" -> "White"

\* An Attr is its u8.
Attr_new_bg_shift_3(fg, bg, blink) ==
  LET fg_bits == bitand(enum_as_u8("TextForegroundColour", fg), 15)
      bg_bits == shl_u8(bitand(enum_as_u8("TextBackgroundColour", bg), 7), 3)
      blink_bit == IF blink THEN shl_u8(1, 7) ELSE 0
  IN  bitor(bitor(blink_bit, bg_bits), fg_bits)

Attr_new(fg, bg, blink) ==
  LET fg_bits == bitand(enum_as_u8("TextForegroundColour", fg), 15)
      bg_bits == shl_u8(bitand(enum_as_u8("TextBackgroundColour", bg), 7), 4)
      blink_bit == IF blink THEN shl_u8(1, 7) ELSE 0
  IN  bitor(bitor(blink_bit, bg_bits), fg_bits)

Attr_fg(a) ==
  LET r == make_safe("TextForegroundColour", bitand(a, 15))
  IN  IF r.tag = "Ok" THEN Return(r.v) ELSE Panic(<<"Failed conversion">>)

Attr_bg_unmasked(a) ==
  LET r == make_safe("TextBackgroundColour", shr(a, 4))
  IN  IF r.tag = "Ok" THEN Return(r.v) ELSE Panic(<<"Failed conversion">>)

Attr_bg(a) ==
  LET r == make_safe("TextBackgroundColour", bitand(shr(a, 4), 7))
  IN  IF r.tag = "Ok" THEN Return(r.v) ELSE Panic(<<"Failed conversion">>)

Attr_blink(a) == bitand(a, 128) # 0
(***************************************************************************)
(* The client: one action per public entry point.  Each call replaces the  *)
(* record of the last call.                                                *)
(***************************************************************************)

\* The largest low (and the span of high) version parts the client passes.
MaxPart == 2

\* The u8 values passed to Version::new: the low ones, the high ones and
\* the values around the sign bit and the decimal carry.
VersionParts == (0..MaxPart) \cup {9, 127, 128} \cup ((255 - MaxPart)..255)

Init == call = [op |-> "init"]

CallNewWithScaling ==
  \E t \in Timings, f \in Formats, s \in Scalings :
    call' = [op |-> "new_with_scaling", timing |-> t, format |-> f, scaling |-> s,
             ret |-> new_with_scaling(t, f, s)]

CallNew ==
  \E t \in Timings, f \in Formats :
    call' = [op |-> "new", timing |-> t, format |-> f, scaling |-> "None",
             ret |-> Mode_new(t, f)]

CallNewDoubleHeight ==
  \E t \in Timings, f \in Formats :
    call' = [op |-> "new_double_height", timing |-> t, format |-> f,
             scaling |-> "DoubleHeight", ret |-> new_double_height(t, f)]

CallNewDoubleWidth ==
  \E t \in Timings, f \in Formats :
    call' = [op |-> "new_double_width", timing |-> t, format |-> f,
             scaling |-> "DoubleWidth", ret |-> new_double_width(t, f)]

CallNewDoubleHeightWidth ==
  \E t \in Timings, f \in Formats :
    call' = [op |-> "new_double_height_width", timing |-> t, format |-> f,
             scaling |-> "DoubleWidthAndHeight", ret |-> new_double_height_width(t, f)]

CallTryFromU8 ==
  \E b \in U8 :
    call' = [op |-> "try_from_u8", mode_value |-> b, ret |-> try_from_u8(b)]

CallFromU8 ==
  \E b \in U8 :
    call' = [op |-> "from_u8", mode_value |-> b, ret |-> from_u8(b)]

CallVersionNew ==
  \E a \in VersionParts, b \in VersionParts, c \in VersionParts :
    call' = [op |-> "Version::new", major |-> a, minor |-> b, patch |-> c,
             ret |-> Version_new(a, b, c)]

\* The constant API_VERSION is Version::new(0, 6, 1), evaluated at compile time.
ConstApiVersion ==
  call' = [op |-> "Version::new", major |-> 0, minor |-> 6, patch |-> 1,
           ret |-> API_VERSION]

\* The largest low raw integer handed to make_safe.
MaxRaw == 16

\* The raw u8 values handed to make_safe.
RawValues == (0..MaxRaw) \cup {127, 128, 255}

CallEnumEncode ==
  \E e \in FfiEnums :
    \E v \in VariantSet(e) :
      call' = [op |-> "as u8", enum |-> e, variant |-> v, ret |-> enum_as_u8(e, v)]

CallMakeSafe ==
  \E e \in FfiEnums, n \in RawValues :
    call' = [op |-> "make_safe", enum |-> e, raw |-> n, ret |-> make_safe(e, n)]

\* The largest payload and the largest low error code of the wrappers.
MaxPayload == 2

Payloads == 0..MaxPayload

\* The u16 codes carried by DeviceError and UnsupportedConfiguration.
ErrorCodes == (0..MaxPayload) \cup {65535}

\* enum Error
Errors ==
  {[kind |-> "InvalidDevice"], [kind |-> "Unimplemented"]}
    \cup {[kind |-> k, code |-> c] :
            k \in {"DeviceError", "UnsupportedConfiguration"}, c \in ErrorCodes}

CallResultUnwrap ==
  \E r \in {Ok(v) : v \in Payloads} \cup {Err(e) : e \in Errors} :
    call' = [op |-> "Result::unwrap", arg |-> r, ret |-> Result_unwrap(r)]

CallOptionUnwrap ==
  \E o \in {Some(v) : v \in Payloads} \cup {None} :
    call' = [op |-> "Option::unwrap", arg |-> o, ret |-> Option_unwrap(o)]

\* The largest low number of seconds of a Time.
MaxSecs == 2

\* The seconds of the Time values converted: the first seconds, a day, the
\* 366 days of the year 2000, and a late instant.
SecsValues == (0..MaxSecs) \cup {86400, 366 * 86400, 1000000000}

NsecsValues == {0, 999999999}

CallTimeInto ==
  \E s \in SecsValues, n \in NsecsValues :
    LET time == [secs |-> s, nsecs |-> n]
    IN  call' = [op |-> "Time::into", time |-> time, ret |-> Time_into_DateTime(time)]

Next ==
  \/ CallNewWithScaling
  \/ CallNew
  \/ CallNewDoubleHeight
  \/ CallNewDoubleWidth
  \/ CallNewDoubleHeightWidth
  \/ CallTryFromU8
  \/ CallFromU8
  \/ CallVersionNew
  \/ ConstApiVersion
  \/ CallEnumEncode
  \/ CallMakeSafe
  \/ CallResultUnwrap
  \/ CallOptionUnwrap
  \/ CallTimeInto

Spec == Init /\ [][Next]_vars

(***************************************************************************)
(* A client that holds two versions built by Version::new and compares     *)
(* them with the derived order.                                            *)
(***************************************************************************)

\* The largest low version part of the compared versions.
MaxOrderPart == 1

\* The u8 values the compared versions are built from.
OrderParts == (0..MaxOrderPart) \cup {9, 255}

OrderTriples == OrderParts \X OrderParts \X OrderParts

InitOrder ==
  \E a \in OrderTriples, b \in OrderTriples :
    call = [op |-> "Version::new x2", a |-> a, b |-> b,
            lhs |-> Version_new(a[1], a[2], a[3]),
            rhs |-> Version_new(b[1], b[2], b[3])]

CallVersionCmp ==
  /\ call.op = "Version::new x2"
  /\ call' = [op |-> "Version::cmp", a |-> call.a, b |-> call.b,
              lhs |-> call.lhs, rhs |-> call.rhs,
              ret |-> Version_cmp(call.lhs, call.rhs),
              eq |-> Version_eq(call.lhs, call.rhs)]

NextOrder == CallVersionCmp

SpecOrder == InitOrder /\ [][NextOrder]_vars

(***************************************************************************)
(* A client of the borrowed views.  It owns a region of memory holding a   *)
(* byte sequence or a string, builds a view over it, and uses what the     *)
(* safe interface offers: the constructors, clone, assignment to the       *)
(* public fields data and data_len of ApiByteSlice and ApiBuffer, the      *)
(* accessors, and passing a buffer to a boundary call that fills it.       *)
(***************************************************************************)

\* The longest region of bytes the client owns.
MaxLen == 3

\* The longest string, in characters.
MaxChars == 2

\* The address of the client's region.
Base == 1

\* The size of the modelled memory: room for the longest region and for
\* every view the client can make, from any pointer it can store.
MemSize == Base + MaxLen + 4 * MaxChars + 3

Addresses == 0..(MemSize - 1)

\* The content of memory the client does not own.
ForeignByte == 14 * 16 + 14

\* The bytes the client stores in a region.
ByteAlphabet == {0, 255}

RECURSIVE SeqsUpTo(_, _)
\* The sequences over S of length at most n.
SeqsUpTo(S, n) ==
  IF n = 0 THEN {<<>>}
  ELSE LET shorter == SeqsUpTo(S, n - 1)
       IN  shorter \cup {Append(q, x) : q \in shorter, x \in S}

ByteSeqs == SeqsUpTo(ByteAlphabet, MaxLen)

\* The characters of the client's strings: U+0041, U+00E9, U+20AC, U+1F600,
\* one for each length of UTF-8 encoding.
Chars == {65, 233, 8364, 128512}

\* char::encode_utf8: the UTF-8 bytes of a code point.
encode_utf8(c) ==
  IF c < 128 THEN <<c>>
  ELSE IF c < 2048 THEN <<192 + (c \div 64), 128 + (c % 64)>>
  ELSE IF c < 65536 THEN
    <<224 + (c \div 4096), 128 + ((c \div 64) % 64), 128 + (c % 64)>>
  ELSE
    <<240 + (c \div 262144), 128 + ((c \div 4096) % 64),
      128 + ((c \div 64) % 64), 128 + (c % 64)>>

RECURSIVE str_bytes(_)
\* The bytes of the &str that holds a sequence of characters.
str_bytes(cs) ==
  IF cs = <<>> THEN <<>> ELSE encode_utf8(Head(cs)) \o str_bytes(Tail(cs))

\* The strings of the client, as their bytes.
Strings == {str_bytes(cs) : cs \in SeqsUpTo(Chars, MaxChars)}

\* Memory with the client's region at Base holding the given bytes.
MemImage(bytes) ==
  [a \in Addresses |->
     IF a \in Base..(Base + Len(bytes) - 1) THEN bytes[a - Base + 1] ELSE ForeignByte]

\* The state of the client after a call on a view.
Holding(op, kind, s, mem, view, ret) ==
  [op |-> op, kind |-> kind, s |-> s, region |-> Slice(Base, Len(s)),
   mem |-> mem, view |-> view, ret |-> ret]

\* The client holds a view with public fields that no call has consumed.
HoldsView == call.op \notin {"init", "fill"} /\ "view" \in DOMAIN call

HoldsPublicView == HoldsView /\ call.kind \in {"ApiByteSlice", "ApiBuffer"}

NoValue == <<>>

CallByteSliceNew ==
  \E s \in ByteSeqs :
    call' = Holding("ApiByteSlice::new", "ApiByteSlice", s, MemImage(s),
                    ApiByteSlice_new(Slice(Base, Len(s))), NoValue)

CallBufferNew ==
  \E s \in ByteSeqs :
    call' = Holding("ApiBuffer::new", "ApiBuffer", s, MemImage(s),
                    ApiBuffer_new(Slice(Base, Len(s))), NoValue)

CallStringNew ==
  \E s \in Strings :
    call' = Holding("ApiString::new", "ApiString", s, MemImage(s),
                    ApiString_new(Slice(Base, Len(s))), NoValue)

CallStringFrom ==
  \E s \in Strings :
    call' = Holding("ApiString::from", "ApiString", s, MemImage(s),
                    ApiString_from(Slice(Base, Len(s))), NoValue)

CallClone ==
  /\ HoldsView
  /\ call' = Holding("clone", call.kind, call.s, call.mem, view_clone(call.view), NoValue)

\* view.data_len = n: the field is public.
SetDataLen ==
  /\ HoldsPublicView
  /\ \E n \in 0..(MaxLen + 1) :
       call' = Holding("data_len =", call.kind, call.s, call.mem,
                       [call.view EXCEPT !.data_len = n], NoValue)

\* view.data = p: the field is public, and storing a raw pointer is safe.
SetData ==
  /\ HoldsPublicView
  /\ \E p \in {NULL, Base, Base + 1} :
       call' = Holding("data =", call.kind, call.s, call.mem,
                       [call.view EXCEPT !.data = p], NoValue)

CallAsSlice ==
  /\ HoldsPublicView
  /\ call' = Holding("as_slice", call.kind, call.s, call.mem, call.view,
                     IF call.kind = "ApiBuffer"
                     THEN ApiBuffer_as_slice(call.view)
                     ELSE ApiByteSlice_as_slice(call.view))

CallAsMutSlice ==
  /\ HoldsPublicView
  /\ call.kind = "ApiBuffer"
  /\ call' = Holding("as_mut_slice", call.kind, call.s, call.mem, call.view,
                     ApiBuffer_as_mut_slice(call.view))

CallAsStr ==
  /\ HoldsView
  /\ call.kind = "ApiString"
  /\ call' = Holding("as_str", call.kind, call.s, call.mem, call.view,
                     ApiString_as_str(call.view))

CallDisplay ==
  /\ HoldsView
  /\ call.kind = "ApiString"
  /\ call' = Holding("fmt", call.kind, call.s, call.mem, call.view,
                     ApiString_fmt(call.mem, call.view))

\* The bytes a boundary call has to deliver when asked for `request` bytes.
FillSource(request) == [i \in 1..request |-> 192 + i]

\* The buffer is passed by value to a boundary call that fills it.
CallFill ==
  /\ HoldsView
  /\ call.kind = "ApiBuffer"
  /\ \E request \in 0..(MaxLen + 2) :
       LET done == buffer_fill(call.mem, call.view, FillSource(request))
       IN  call' = [op |-> "fill", kind |-> call.kind, s |-> call.s,
                    region |-> call.region, mem0 |-> call.mem, mem |-> done.mem,
                    view |-> call.view, request |-> request, ret |-> done.ret]

NextViews ==
  \/ CallByteSliceNew
  \/ CallBufferNew
  \/ CallStringNew
  \/ CallStringFrom
  \/ CallClone
  \/ SetDataLen
  \/ SetData
  \/ CallAsSlice
  \/ CallAsMutSlice
  \/ CallAsStr
  \/ CallDisplay
  \/ CallFill

SpecViews == Init /\ [][NextViews]_vars


(***************************************************************************)
(* A client of the text attributes: it packs an Attr, reads the fields of  *)
(* any Attr (the u8 field is public, so every byte is an Attr) and         *)
(* converts colours.                                                       *)
(***************************************************************************)

CallAttrNew ==
  \E fg \in VariantSet("TextForegroundColour"),
     bg \in VariantSet("TextBackgroundColour"), blink \in BOOLEAN :
    call' = [op |-> "Attr::new", fg |-> fg, bg |-> bg, blink |-> blink,
             ret |-> Attr_new(fg, bg, blink)]

CallAttrFg ==
  \E b \in U8 : call' = [op |-> "Attr::fg", attr |-> b, ret |-> Attr_fg(b)]

CallAttrBg ==
  \E b \in U8 : call' = [op |-> "Attr::bg", attr |-> b, ret |-> Attr_bg(b)]

CallAttrBlink ==
  \E b \in U8 : call' = [op |-> "Attr::blink", attr |-> b, ret |-> Attr_blink(b)]

CallBrighten ==
  \E c \in VariantSet("TextForegroundColour") :
    call' = [op |-> "brighten", colour |-> c, ret |-> brighten(c)]

CallMakeBackground ==
  \E c \in VariantSet("TextForegroundColour") :
    call' = [op |-> "make_background", colour |-> c, ret |-> make_background(c)]

NextAttr ==
  \/ CallAttrNew
  \/ CallAttrFg
  \/ CallAttrBg
  \/ CallAttrBlink
  \/ CallBrighten
  \/ CallMakeBackground

SpecAttr == Init /\ [][NextAttr]_vars

(***************************************************************************)
(* The modes a client can hold.                                            *)
(***************************************************************************)

Constructors == {"new_with_scaling", "new", "new_double_height",
                 "new_double_width", "new_double_height_width"}

\* The last call built a mode from a (timing, format, scaling) triple.
Built == call.op \in Constructors

\* The last call returned a mode through a safe interface.
HasValidMode == Built \/ (call.op = "try_from_u8" /\ call.ret.tag = "Some")

\* That mode.
TheMode == IF Built THEN call.ret ELSE call.ret.v

(***************************************************************************)
(* Properties of the mode descriptor.                                      *)
(***************************************************************************)

\* The scaling a constructor of the fixture stands for.
ScalingOf(ctor) ==
  CASE ctor = "new" -> "None"
    [] ctor = "new_double_width" -> "DoubleWidth"
    [] ctor = "new_double_height" -> "DoubleHeight"
    [] ctor = "new_double_height_width" -> "DoubleWidthAndHeight"

DoublesWidth(s) == s \in {"DoubleWidth", "DoubleWidthAndHeight"}

DoublesHeight(s) == s \in {"DoubleHeight", "DoubleWidthAndHeight"}

Bit(b) == IF b THEN 1 ELSE 0

\* The height of a glyph cell in lines: 16, 8, or 1 for a graphics format.
GlyphCellHeight(f) ==
  CASE f = "Text8x16" -> 16
    [] f = "Text8x8" -> 8
    [] OTHER -> 1

\* C1: a mode built from a (timing, format, scaling) triple decodes back to
\* that triple (timing(), format(), is_horiz_2x(), is_vert_2x()), and its
\* as_u8() fed through try_from_u8 returns Some of the same mode.
C1_RoundTrip ==
  Built =>
    LET m == call.ret
    IN  /\ timing(m) = call.timing
        /\ format(m) = call.format
        /\ is_horiz_2x(m) = DoublesWidth(call.scaling)
        /\ is_vert_2x(m) = DoublesHeight(call.scaling)
        /\ try_from_u8(as_u8(m)) = Some(m)

C1_Witness ==
  /\ call.op = "new_with_scaling"
  /\ call.timing = "T800x600"
  /\ call.format = "Chunky1"
  /\ call.scaling = "DoubleWidthAndHeight"
  /\ timing(call.ret) = "T800x600"

\* C2: try_from_u8(b) returns None exactly when the timing field (bits 6-4)
\* of b is in 3..=7; otherwise it returns Some(mode) with mode.as_u8() == b;
\* no descriptor it yields has a timing field outside 0..=2.
C2_CheckedDecode ==
  call.op = "try_from_u8" =>
    LET b == call.mode_value
        field == (b \div 16) % 8
    IN  /\ (call.ret = None) <=> (field \in 3..7)
        /\ field \notin 3..7 =>
             /\ call.ret.tag = "Some"
             /\ as_u8(call.ret.v) = b
        /\ call.ret.tag = "Some" =>
             /\ (call.ret.v \div 16) % 8 \in 0..2
             /\ timing(call.ret.v) # Unreachable

C2_Witness ==
  /\ call.op = "try_from_u8"
  /\ call.mode_value = 48
  /\ call.ret = None

C4_ByteLayout ==
  /\ Built =>
       LET b == as_u8(call.ret)
           t == Timing_as_u8(call.timing)
           f == Format_as_u8(call.format)
           h == Bit(DoublesWidth(call.scaling))
           v == Bit(DoublesHeight(call.scaling))
       IN  /\ t \in 0..2 /\ f \in 0..7
           /\ b = 128 * v + 16 * t + 8 * h + f
           /\ b \div 128 = v
           /\ (b \div 16) % 8 = t
           /\ (b \div 8) % 2 = h
           /\ b % 8 = f
  /\ Format_as_u8("Text8x16") = 0
  /\ Format_as_u8("Chunky1") = 7
  /\ (call.op = "new" /\ call.timing = "T640x480" /\ call.format = "Text8x16")
       => as_u8(call.ret) = 0

C4_Witness ==
  /\ call.op = "new_with_scaling"
  /\ call.timing = "T640x400"
  /\ call.format = "Chunky4"
  /\ call.scaling = "DoubleHeight"
  /\ call.ret = 149

\* The rows of the fixture for a (timing, format, scaling) triple.
FixtureRows(t, f, s) ==
  {i \in 1..Len(mode_sizes) :
     /\ ScalingOf(mode_sizes[i][1]) = s
     /\ mode_sizes[i][2] = t
     /\ mode_sizes[i][3] = f}

\* C5: for each of the 96 (timing, format, scaling) combinations,
\* frame_size_bytes() is line_size_bytes() times the number of rows
\* (vertical_lines() divided by 16, 8 or 1), and it is the value the
\* mode_sizes test expects for that combination.
C5_FrameSize ==
  Built =>
    LET m == call.ret
        rows == vertical_lines(m) \div GlyphCellHeight(call.format)
        fixture == FixtureRows(call.timing, call.format, call.scaling)
    IN  /\ frame_size_bytes(m) = line_size_bytes(m) * rows
        /\ Cardinality(fixture) = 1
        /\ \A i \in fixture : frame_size_bytes(m) = mode_sizes[i][4]

C5_Witness ==
  /\ call.op = "new_double_height"
  /\ call.timing = "T640x400"
  /\ call.format = "Text8x16"
  /\ frame_size_bytes(call.ret) = 1920

\* Bits per pixel of a graphics format.
BitsPerPixel(f) ==
  CASE f = "Chunky32" -> 32
    [] f = "Chunky16" -> 16
    [] f = "Chunky8" -> 8
    [] f = "Chunky4" -> 4
    [] f = "Chunky2" -> 2
    [] f = "Chunky1" -> 1

TextFormats == {"Text8x16", "Text8x8"}

\* The divisions of line_size_bytes() leave no remainder.
LineSizeExact(m) ==
  IF format(m) \in TextFormats
  THEN 8 * line_size_bytes(m) = 2 * horizontal_pixels(m)
  ELSE 8 * line_size_bytes(m) = BitsPerPixel(format(m)) * horizontal_pixels(m)

\* The text modes whose height is not a whole number of glyph rows.
PartialRowModes ==
  {m \in U8 :
     /\ timing(m) # Unreachable
     /\ \/ timing(m) = "T800x600" /\ format(m) = "Text8x16"
        \/ timing(m) = "T800x600" /\ format(m) = "Text8x8" /\ is_vert_2x(m)
        \/ timing(m) = "T640x400" /\ format(m) = "Text8x16" /\ is_vert_2x(m)}

\* C6 as claimed: no division of line_size_bytes() and frame_size_bytes()
\* has a remainder, frame_size_bytes() * glyph_cell_height(format) ==
\* line_size_bytes() * vertical_lines() for every valid mode.
C6_NoRounding ==
  HasValidMode =>
    LET m == TheMode
    IN  /\ LineSizeExact(m)
        /\ frame_size_bytes(m) * GlyphCellHeight(format(m))
             = line_size_bytes(m) * vertical_lines(m)

\* C6 as amended: the divisions of line_size_bytes() have no remainder, and
\* frame_size_bytes() counts whole glyph rows only: frame_size_bytes() *
\* glyph_cell_height == line_size_bytes() * (vertical_lines() - vertical_lines()
\* mod glyph_cell_height).  The remainder is zero for every graphics mode and
\* every text mode but T800x600/Text8x16 (600 or 300 lines by 16),
\* T800x600/Text8x8 double height (300 by 8) and T640x400/Text8x16 double
\* height (200 by 16), where the division rounds down.
C6_WholeRows ==
  HasValidMode =>
    LET m == TheMode
        cell == GlyphCellHeight(format(m))
        lines == vertical_lines(m)
    IN  /\ LineSizeExact(m)
        /\ frame_size_bytes(m) * cell = line_size_bytes(m) * (lines - (lines % cell))
        /\ (frame_size_bytes(m) * cell < line_size_bytes(m) * lines)
             <=> (m \in PartialRowModes)
        /\ (frame_size_bytes(m) * cell = line_size_bytes(m) * lines)
             <=> (m \notin PartialRowModes)

C6_Witness ==
  /\ call.op = "new"
  /\ call.timing = "T800x600"
  /\ call.format = "Text8x16"
  /\ frame_size_bytes(call.ret) = 7400
  /\ line_size_bytes(call.ret) * vertical_lines(call.ret) = 120000

\* C7: frame_size_bytes() of every mode try_from_u8 accepts, and of every
\* mode a constructor builds, is a multiple of four.
C7_FrameMultipleOfFour ==
  HasValidMode => frame_size_bytes(TheMode) % 4 = 0

C7_Witness ==
  /\ call.op = "try_from_u8"
  /\ call.mode_value = 175
  /\ call.ret = Some(175)
  /\ frame_size_bytes(call.ret.v) = 15000

\* C8: with w = horizontal_pixels(), line_size_bytes() is (w/8)*2 for the
\* text formats, w*4 for Chunky32, w*2 for Chunky16, w for Chunky8, w/2 for
\* Chunky4, w/4 for Chunky2 and w/8 for Chunky1; for a graphics format that
\* is w * bits_per_pixel / 8 with no remainder.
C8_LineSize ==
  HasValidMode =>
    LET m == TheMode
        w == horizontal_pixels(m)
        f == format(m)
        line == line_size_bytes(m)
    IN  /\ f \in TextFormats => line = (w \div 8) * 2
        /\ f = "Chunky32" => line = w * 4
        /\ f = "Chunky16" => line = w * 2
        /\ f = "Chunky8" => line = w
        /\ f = "Chunky4" => line = w \div 2
        /\ f = "Chunky2" => line = w \div 4
        /\ f = "Chunky1" => line = w \div 8
        /\ f \notin TextFormats =>
             /\ (w * BitsPerPixel(f)) % 8 = 0
             /\ line = (w * BitsPerPixel(f)) \div 8

C8_Witness ==
  /\ call.op = "new_double_width"
  /\ call.timing = "T800x600"
  /\ call.format = "Chunky2"
  /\ horizontal_pixels(call.ret) = 400
  /\ line_size_bytes(call.ret) = 100

\* Nominal visible size of a timing.
NominalWidth(t) == IF t = "T800x600" THEN 800 ELSE 640

NominalHeight(t) ==
  CASE t = "T640x480" -> 480
    [] t = "T640x400" -> 400
    [] t = "T800x600" -> 600

\* The bytes try_from_u8 accepts.
ValidModes == {b \in U8 : try_from_u8(b) # None}

\* C9: horizontal_pixels() depends only on the timing and the
\* horizontal-double bit and vertical_lines() only on the timing and the
\* vertical-double bit: nominally 640x480, 640x400, 800x600, the width
\* exactly halved by the horizontal bit (320, 320, 400), the height exactly
\* halved by the vertical bit (240, 200, 300), whatever the format.
C9_VisibleSize ==
  HasValidMode =>
    LET m == TheMode
        w == horizontal_pixels(m)
        l == vertical_lines(m)
    IN  /\ ~is_horiz_2x(m) => w = NominalWidth(timing(m))
        /\ is_horiz_2x(m) => 2 * w = NominalWidth(timing(m))
        /\ ~is_vert_2x(m) => l = NominalHeight(timing(m))
        /\ is_vert_2x(m) => 2 * l = NominalHeight(timing(m))
        /\ \A n \in ValidModes :
             /\ (timing(n) = timing(m) /\ is_horiz_2x(n) = is_horiz_2x(m))
                  => horizontal_pixels(n) = w
             /\ (timing(n) = timing(m) /\ is_vert_2x(n) = is_vert_2x(m))
                  => vertical_lines(n) = l
        /\ Built =>
             /\ w = NominalWidth(call.timing) \div (1 + Bit(DoublesWidth(call.scaling)))
             /\ l = NominalHeight(call.timing) \div (1 + Bit(DoublesHeight(call.scaling)))

C9_Witness ==
  /\ call.op = "new_double_height_width"
  /\ call.timing = "T640x400"
  /\ call.format = "Chunky16"
  /\ horizontal_pixels(call.ret) = 320
  /\ vertical_lines(call.ret) = 200

(***************************************************************************)
(* Properties of the version descriptor.                                   *)
(***************************************************************************)

\* C10: v = Version::new(major, minor, patch) has v.major() == major,
\* v.minor() == minor and v.patch() == patch.
C10_VersionRoundTrip ==
  call.op = "Version::new" =>
    /\ major(call.ret) = call.major
    /\ minor(call.ret) = call.minor
    /\ patch(call.ret) = call.patch

C10_Witness ==
  /\ call.op = "Version::new"
  /\ call.major = 255
  /\ call.minor = 128
  /\ call.patch = 9
  /\ call.ret = 16744457

\* Lexicographic order on (major, minor, patch) triples.
LexLess(a, b) ==
  \/ a[1] < b[1]
  \/ a[1] = b[1] /\ a[2] < b[2]
  \/ a[1] = b[1] /\ a[2] = b[2] /\ a[3] < b[3]

\* C11: the order of versions built by Version::new is the lexicographic
\* order on (major, minor, patch): less iff lexicographically smaller, equal
\* iff all three parts are equal, a total order (exactly one of less, equal,
\* greater; the reverse comparison mirrors it; less is transitive), and
\* Version(1,0,0) > Version(0,9,9) > Version(0,9,0).
C11_VersionOrder ==
  call.op = "Version::cmp" =>
    LET a == call.a
        b == call.b
    IN  /\ (call.ret = "Less") <=> LexLess(a, b)
        /\ (call.ret = "Greater") <=> LexLess(b, a)
        /\ (call.ret = "Equal") <=> (a = b)
        /\ call.eq <=> (a = b)
        /\ call.ret \in {"Less", "Equal", "Greater"}
        /\ Version_cmp(call.rhs, call.lhs)
             = (CASE call.ret = "Less" -> "Greater"
                  [] call.ret = "Greater" -> "Less"
                  [] OTHER -> "Equal")
        /\ \A c \in OrderTriples :
             (call.ret = "Less"
                /\ Version_cmp(call.rhs, Version_new(c[1], c[2], c[3])) = "Less")
               => Version_cmp(call.lhs, Version_new(c[1], c[2], c[3])) = "Less"
        /\ (a = <<1, 0, 0>> /\ b = <<0, 9, 9>>) => call.ret = "Greater"
        /\ (a = <<0, 9, 9>> /\ b = <<0, 9, 0>>) => call.ret = "Greater"

C11_Witness ==
  /\ call.op = "Version::cmp"
  /\ call.a = <<1, 0, 0>>
  /\ call.b = <<0, 9, 9>>
  /\ call.ret = "Greater"

\* C12: Version::new(major, minor, patch) stores the 32-bit integer
\* major*65536 + minor*256 + patch, the top byte is zero (for API_VERSION =
\* Version::new(0, 6, 1) too), and major(), minor(), patch() read bits 23-16,
\* 15-8 and 7-0.
C12_VersionLayout ==
  /\ call.op = "Version::new" =>
       LET v == call.ret
       IN  /\ v = call.major * 65536 + call.minor * 256 + call.patch
           /\ v \div 16777216 = 0
           /\ major(v) = (v \div 65536) % 256
           /\ minor(v) = (v \div 256) % 256
           /\ patch(v) = v % 256
           /\ v = major(v) * 65536 + minor(v) * 256 + patch(v)
  /\ API_VERSION = 6 * 256 + 1
  /\ API_VERSION \div 16777216 = 0

C12_Witness ==
  /\ call.op = "Version::new"
  /\ call.major = 0 /\ call.minor = 6 /\ call.patch = 1
  /\ call.ret = API_VERSION
  /\ call.ret = 1537

(***************************************************************************)
(* Properties of the enumerated-value codec and of the wrappers.           *)
(***************************************************************************)

\* The number of variants the claim gives each enumeration.
VariantCount(e) ==
  CASE e = "Format" -> 8
    [] e = "TextForegroundColour" -> 16
    [] e = "TextBackgroundColour" -> 8
    [] e = "PeripheralKind" -> 3

\* C13: for Format (N=8), TextForegroundColour (N=16), TextBackgroundColour
\* (N=8) and PeripheralKind (N=3): a variant encodes to an integer in [0, N)
\* that no other variant encodes to, make_safe of that integer returns the
\* variant, and make_safe of an integer outside [0, N) fails.
C13_EnumCodec ==
  /\ call.op = "as u8" =>
       LET e == call.enum
       IN  /\ call.ret \in 0..(VariantCount(e) - 1)
           /\ \A w \in VariantSet(e) : enum_as_u8(e, w) = call.ret => w = call.variant
           /\ make_safe(e, call.ret) = Ok(call.variant)
           /\ Cardinality(VariantSet(e)) = VariantCount(e)
  /\ call.op = "make_safe" =>
       LET e == call.enum
       IN  /\ call.raw \notin 0..(VariantCount(e) - 1) => call.ret = Err(ConversionFailed)
           /\ call.raw \in 0..(VariantCount(e) - 1) =>
                /\ call.ret.tag = "Ok"
                /\ call.ret.v \in VariantSet(e)
                /\ enum_as_u8(e, call.ret.v) = call.raw

C13_Witness ==
  /\ call.op = "make_safe"
  /\ call.enum = "PeripheralKind"
  /\ call.raw = 3
  /\ call.ret = Err(ConversionFailed)

RECURSIVE DecimalValue(_)
\* The number a sequence of decimal digits writes.
DecimalValue(ds) ==
  IF ds = <<>> THEN 0
  ELSE 10 * DecimalValue(SubSeq(ds, 1, Len(ds) - 1))
         + (CHOOSE d \in 0..9 : Digits[d + 1] = ds[Len(ds)])

\* C14: Result::unwrap returns the payload unchanged on Ok(v) and panics
\* with a message naming the error on Err(e); Option::unwrap returns the
\* payload unchanged on Some(v) and panics on None; a panicking call
\* produces no payload value.
C14_Unwrap ==
  /\ call.op = "Result::unwrap" =>
       /\ call.arg.tag = "Ok" => call.ret = [panic |-> FALSE, val |-> call.arg.v]
       /\ call.arg.tag = "Err" =>
            /\ call.ret.panic
            /\ DOMAIN call.ret = {"panic", "msg"}
            /\ \E i \in 1..Len(call.ret.msg) : call.ret.msg[i] = call.arg.e.kind
            /\ "code" \in DOMAIN call.arg.e =>
                 DecimalValue(SubSeq(call.ret.msg, 4, Len(call.ret.msg) - 1))
                   = call.arg.e.code
  /\ call.op = "Option::unwrap" =>
       /\ call.arg.tag = "Some" => call.ret = [panic |-> FALSE, val |-> call.arg.v]
       /\ call.arg.tag = "None" =>
            /\ call.ret.panic
            /\ DOMAIN call.ret = {"panic", "msg"}

C14_Witness ==
  /\ call.op = "Result::unwrap"
  /\ call.arg = Err([kind |-> "DeviceError", code |-> 65535])
  /\ call.ret.panic

(***************************************************************************)
(* Properties of the borrowed views.                                       *)
(***************************************************************************)

\* C15: for a buffer view constructed over a region of length L, a request
\* to write more than L bytes reports exactly L bytes written, and no
\* request modifies a byte outside the region.
C15_FillBounded ==
  (call.op = "fill" /\ call.view = ApiBuffer_new(call.region)) =>
    LET L == call.region.len
    IN  /\ call.request > L => call.ret = Ok(L)
        /\ call.request <= L => call.ret = Ok(call.request)
        /\ \A a \in Addresses :
             a \notin SliceAddrs(call.region) => call.mem[a] = call.mem0[a]
        /\ \A i \in 1..call.ret.v : call.mem[call.region.ptr + i - 1] = 192 + i

C15_Witness ==
  /\ call.op = "fill"
  /\ call.view = ApiBuffer_new(call.region)
  /\ call.region.len = 2
  /\ call.request = 4
  /\ call.ret = Ok(2)

\* C16: after any sequence of safe operations on an ApiByteSlice or
\* ApiBuffer (new, clone, assignment to the public fields data and
\* data_len), as_slice() and as_mut_slice() expose only bytes inside the
\* region the view was constructed over.
C16_ExposedWithinRegion ==
  call.op \in {"as_slice", "as_mut_slice"} =>
    SliceAddrs(call.ret) \subseteq SliceAddrs(call.region)

\* C17: ApiByteSlice::new(s) and ApiBuffer::new(s) have data_len == L, the
\* length of s, and as_slice() (and as_mut_slice()) cover exactly the bytes
\* of s in order; for L == 0 the view is an empty view with a non-null
\* pointer and as_slice() is the empty sequence.
C17_ViewOfSlice ==
  /\ call.op = "ApiByteSlice::new" =>
       /\ call.view.data_len = Len(call.s)
       /\ call.view.data # NULL
       /\ ApiByteSlice_as_slice(call.view) = call.region
       /\ SliceBytes(call.mem, ApiByteSlice_as_slice(call.view)) = call.s
  /\ call.op = "ApiBuffer::new" =>
       /\ call.view.data_len = Len(call.s)
       /\ call.view.data # NULL
       /\ ApiBuffer_as_slice(call.view) = call.region
       /\ ApiBuffer_as_mut_slice(call.view) = call.region
       /\ SliceBytes(call.mem, ApiBuffer_as_slice(call.view)) = call.s
  /\ (/\ call.op \in {"as_slice", "as_mut_slice"}
      /\ call.view = (IF call.kind = "ApiBuffer"
                      THEN ApiBuffer_new(call.region)
                      ELSE ApiByteSlice_new(call.region))) =>
       /\ SliceBytes(call.mem, call.ret) = call.s
       /\ Len(call.s) = 0 => SliceBytes(call.mem, call.ret) = <<>>

C17_Witness ==
  /\ call.op = "as_slice"
  /\ call.kind = "ApiByteSlice"
  /\ call.s = <<>>
  /\ call.view = [data |-> Base, data_len |-> 0]
  /\ SliceBytes(call.mem, call.ret) = <<>>

Continuation(b) == b \in 128..191

RECURSIVE IsUtf8(_)
\* The byte sequence is well-formed UTF-8.
IsUtf8(bs) ==
  IF bs = <<>> THEN TRUE
  ELSE LET b == bs[1]
           n == Len(bs)
       IN  IF b < 128 THEN IsUtf8(Tail(bs))
           ELSE IF b \in 194..223 THEN
             /\ n >= 2 /\ Continuation(bs[2])
             /\ IsUtf8(SubSeq(bs, 3, n))
           ELSE IF b \in 224..239 THEN
             /\ n >= 3 /\ Continuation(bs[2]) /\ Continuation(bs[3])
             /\ b = 224 => bs[2] >= 160
             /\ b = 237 => bs[2] <= 159
             /\ IsUtf8(SubSeq(bs, 4, n))
           ELSE IF b \in 240..244 THEN
             /\ n >= 4 /\ Continuation(bs[2]) /\ Continuation(bs[3])
             /\ Continuation(bs[4])
             /\ b = 240 => bs[2] >= 144
             /\ b = 244 => bs[2] <= 143
             /\ IsUtf8(SubSeq(bs, 5, n))
           ELSE FALSE

\* C18: every ApiString holds valid UTF-8: it is built from a string by
\* ApiString::new, From<&str> or clone, its inner view is never modified
\* from outside the module, ApiString::new(s).as_str() == s and the Display
\* output equals s.
C18_StringIsUtf8 ==
  (call.op # "init" /\ call.kind = "ApiString") =>
    /\ call.op \in {"ApiString::new", "ApiString::from", "clone", "as_str", "fmt"}
    /\ call.view = [data |-> call.region.ptr, data_len |-> call.region.len]
    /\ IsUtf8(call.s)
    /\ IsUtf8(SliceBytes(call.mem, ApiByteSlice_as_slice(call.view)))
    /\ SliceBytes(call.mem, ApiString_as_str(call.view)) = call.s
    /\ call.op = "as_str" => SliceBytes(call.mem, call.ret) = call.s
    /\ call.op = "fmt" => call.ret = call.s

C18_Witness ==
  /\ call.op = "as_str"
  /\ call.s = <<195, 169, 226, 130, 172>>
  /\ SliceBytes(call.mem, call.ret) = call.s

(***************************************************************************)
(* Properties of Time, and of the documented constraints of the formats.   *)
(***************************************************************************)

\* C19: a Time counts seconds from the Neotron epoch 2000-01-01T00:00:00Z:
\* Time { secs: s, nsecs: n } converts to Unix time 946684800 + s seconds
\* plus n nanoseconds, so secs == 0 is 2000-01-01T00:00:00Z.
C19_NeotronEpoch ==
  call.op = "Time::into" =>
    /\ call.ret.secs = 946684800 + call.time.secs
    /\ call.ret.nsecs = call.time.nsecs
    /\ call.time.secs = 0 =>
         call.ret.secs = ymd_and_hms_timestamp(2000, 1, 1, 0, 0, 0)

\* C20: for every valid mode whose format is Chunky1, horizontal_pixels()
\* is a multiple of 32.
C20_Chunky1MultipleOf32 ==
  (HasValidMode /\ format(TheMode) = "Chunky1") =>
    horizontal_pixels(TheMode) % 32 = 0


\* C21: for every valid mode the per-format line constraints other than
\* Chunky1's hold: a text format has an even number of characters per line,
\* Chunky16 an even number of pixels per line, Chunky8 and Chunky4 a multiple
\* of 8 pixels and Chunky2 a multiple of 16 pixels.
C21_LineConstraints ==
  HasValidMode =>
    LET m == TheMode
        f == format(m)
        pixels == horizontal_pixels(m)
    IN  /\ f \in {"Text8x8", "Text8x16"} =>
             /\ text_width(m).tag = "Some"
             /\ text_width(m).v % 2 = 0
        /\ f = "Chunky16" => pixels % 2 = 0
        /\ f \in {"Chunky8", "Chunky4"} => pixels % 8 = 0
        /\ f = "Chunky2" => pixels % 16 = 0

C21_Witness ==
  /\ HasValidMode
  /\ format(TheMode) = "Chunky2"
  /\ timing(TheMode) = "T800x600"
  /\ is_horiz_2x(TheMode)
  /\ horizontal_pixels(TheMode) = 400

\* C22: Attr::new(fg, bg, blink) is the byte
\* 128*blink + 16*bg_index + fg_index, and fg(), bg() and blink() of that
\* Attr return fg, bg and blink.
C22_AttrPacking ==
  call.op = "Attr::new" =>
    LET fg_index == enum_as_u8("TextForegroundColour", call.fg)
        bg_index == enum_as_u8("TextBackgroundColour", call.bg)
    IN  /\ call.ret = 128 * Bit(call.blink) + 16 * bg_index + fg_index
        /\ Attr_fg(call.ret) = Return(call.fg)
        /\ Attr_bg(call.ret) = Return(call.bg)
        /\ Attr_blink(call.ret) = call.blink

C22_Witness ==
  /\ call.op = "Attr::new"
  /\ call.fg = "Yellow"
  /\ call.bg = "LightGray"
  /\ call.blink
  /\ call.ret = 254
  /\ Attr_bg(call.ret) = Return("LightGray")

\* The palette index of a foreground colour.
PaletteIndex(c) == enum_as_u8("TextForegroundColour", c)

\* C23: brighten(c) has the same shade as c
\* (brighten(c).make_background() = c.make_background()) and never a lower
\* palette index than c.
C23_BrightenSameShade ==
  call.op = "brighten" =>
    /\ make_background(call.ret) = make_background(call.colour)
    /\ PaletteIndex(call.ret) >= PaletteIndex(call.colour)

\* C24: for every valid mode, is_text_mode() is true iff the format is
\* Text8x8 or Text8x16 iff text_width() is Some iff text_height() is Some; in
\* a text mode text_width() = horizontal_pixels()/8, text_height() is
\* vertical_lines()/8 (Text8x8) or /16 (Text8x16), line_size_bytes() =
\* 2*text_width() and frame_size_bytes() = 2*text_width()*text_height(); in
\* a graphics mode both are None.
C24_TextGeometry ==
  HasValidMode =>
    LET m == TheMode
        text == format(m) \in {"Text8x8", "Text8x16"}
    IN  /\ is_text_mode(m) <=> text
        /\ text <=> text_width(m).tag = "Some"
        /\ text <=> text_height(m).tag = "Some"
        /\ text =>
             /\ text_width(m) = Some(horizontal_pixels(m) \div 8)
             /\ text_height(m) = Some(vertical_lines(m) \div GlyphCellHeight(format(m)))
             /\ line_size_bytes(m) = 2 * text_width(m).v
             /\ frame_size_bytes(m) = 2 * text_width(m).v * text_height(m).v
        /\ ~text =>
             /\ text_width(m) = None
             /\ text_height(m) = None

C24_Witness ==
  /\ HasValidMode
  /\ format(TheMode) = "Text8x16"
  /\ timing(TheMode) = "T800x600"
  /\ ~is_vert_2x(TheMode)
  /\ text_height(TheMode) = Some(37)
  /\ frame_size_bytes(TheMode) = 7400

\* Bits 6-4 of a mode byte.
TimingField(b) == (b \div 16) % 8

\* C25: no accessor of Mode reaches unreachable!() on a mode from a
\* constructor or from a successful try_from_u8; timing() reaches it only on
\* a mode from the unchecked from_u8 whose timing field is 3..=7, which are
\* exactly the bytes try_from_u8 rejects.
C25_UnreachableOnlyUnchecked ==
  /\ HasValidMode =>
       LET m == TheMode
       IN  /\ timing(m) # Unreachable
           /\ format(m) # Unreachable
           /\ horizontal_pixels(m) \in Nat
           /\ vertical_lines(m) \in Nat
           /\ line_size_bytes(m) \in Nat
           /\ frame_size_bytes(m) \in Nat
           /\ text_width(m).tag \in {"Some", "None"}
           /\ text_height(m).tag \in {"Some", "None"}
           /\ pixel_clock_hz(m) \in Nat
           /\ frame_rate_hz(m) \in Nat
  /\ call.op = "from_u8" =>
       LET m == call.ret
       IN  /\ format(m) # Unreachable
           /\ timing(m) = Unreachable <=> TimingField(call.mode_value) \in 3..7
           /\ timing(m) = Unreachable <=> try_from_u8(call.mode_value) = None

C25_Witness ==
  /\ call.op = "from_u8"
  /\ call.mode_value = 127
  /\ timing(call.ret) = Unreachable
  /\ try_from_u8(call.mode_value) = None

\* C26: Attr::fg() and Attr::bg() are total: for every byte b, Attr(b).fg()
\* returns the foreground colour with index b mod 16 and Attr(b).bg() the
\* background colour with index (b div 16) mod 8, and neither reaches the
\* "Failed conversion" panic.
C26_AttrAccessorsTotal ==
  /\ call.op = "Attr::fg" =>
       /\ ~call.ret.panic
       /\ call.ret = Return(TextForegroundColour[(call.attr % 16) + 1])
  /\ call.op = "Attr::bg" =>
       /\ ~call.ret.panic
       /\ call.ret = Return(TextBackgroundColour[((call.attr \div 16) % 8) + 1])

C26_Witness ==
  /\ call.op = "Attr::bg"
  /\ call.attr = 255
  /\ call.ret = Return("LightGray")
====
